---- MODULE Spec2Model ----
(***************************************************************************)
(* Packager Extras (src/app.py): a desktop tool that opens a packaged      *)
(* application archive, extracts it into a temporary directory on a        *)
(* background thread, and then, on request, patches the executable's icon  *)
(* (re-zipping the tree over the archive) and/or builds an installer.      *)
(*                                                                         *)
(* The model has one UI thread whose handlers are atomic, background       *)
(* worker threads that advance step by step, and the FIFO of queued        *)
(* signals from the workers to the UI thread.  Files are modelled by what  *)
(* the code reads from them; the two external tools, the archive writer    *)
(* and the file moves are calls that may fail.                             *)
(*                                                                         *)
(* Representation of Python values:                                        *)
(*   - a path inside an archive or below a directory is the sequence of    *)
(*     its components, i.e. the value of path.split('/'); the entry of a   *)
(*     directory "root/" is <<"root", "">>;                                *)
(*   - a directory tree is a function from file paths to file data;        *)
(*   - None is the record None; a path that is None or unset is "" or <<>>. *)
(*                                                                         *)
(* The update checker (UpdateCheckerWorker) touches no state of a run and  *)
(* is left out.  A close of the window that is accepted ends the program:  *)
(* no step follows it.                                                     *)
(*                                                                         *)
(* Spec is the program.  FunctionSpec calls one of the functions           *)
(* get_executable_name, get_icon_as_ico and escape_inno_value on one       *)
(* argument drawn from a bounded set, for the properties of the functions  *)
(* by themselves.                                                          *)
(***************************************************************************)
EXTENDS Integers, Sequences, FiniteSets, TLC

\* ------------------------------------------------------------------ bounds

\* Number of files the user may open (runs) in one behaviour.
MaxRuns == 2
\* Number of options workers one run may start.
MaxAttempts == 2
\* Longest directory listing and longest string a function is called with
\* on its own.
MaxListing == 3
MaxString == 3

\* ------------------------------------------------------------ file names

\* The characters of the file names the model uses (TLC cannot look inside
\* a string).
Chars(name) ==
  CASE name = "app.exe" -> <<"a", "p", "p", ".", "e", "x", "e">>
    [] name = "notification_helper.exe" ->
         <<"n", "o", "t", "i", "f", "i", "c", "a", "t", "i", "o", "n", "_",
           "h", "e", "l", "p", "e", "r", ".", "e", "x", "e">>
    [] name = "resources.pak" ->
         <<"r", "e", "s", "o", "u", "r", "c", "e", "s", ".", "p", "a", "k">>
    [] name = "icon.png" -> <<"i", "c", "o", "n", ".", "p", "n", "g">>
    [] name = "custom.png" ->
         <<"c", "u", "s", "t", "o", "m", ".", "p", "n", "g">>
    [] name = "icon.png.ico" ->
         <<"i", "c", "o", "n", ".", "p", "n", "g", ".", "i", "c", "o">>
    [] name = "custom.png.ico" ->
         <<"c", "u", "s", "t", "o", "m", ".", "p", "n", "g", ".", "i", "c", "o">>
    [] name = "package.json" ->
         <<"p", "a", "c", "k", "a", "g", "e", ".", "j", "s", "o", "n">>
    [] name = "index.html" ->
         <<"i", "n", "d", "e", "x", ".", "h", "t", "m", "l">>
    [] name = "config.iss" ->
         <<"c", "o", "n", "f", "i", "g", ".", "i", "s", "s">>
    [] name = "Generated Installer" ->
         <<"G", "e", "n", "e", "r", "a", "t", "e", "d", " ",
           "I", "n", "s", "t", "a", "l", "l", "e", "r">>
    [] name = "demo Setup.exe" ->
         <<"d", "e", "m", "o", " ", "S", "e", "t", "u", "p", ".", "e", "x", "e">>
    [] name = "root" -> <<"r", "o", "o", "t">>
    [] name = "stray.txt" -> <<"s", "t", "r", "a", "y", ".", "t", "x", "t">>
    [] name = ".exe" -> <<".", "e", "x", "e">>
    [] name = "" -> <<>>

\* str.endswith
EndsWith(name, suffix) ==
  LET n == Chars(name)
      s == Chars(suffix)
  IN  /\ Len(s) <= Len(n)
      /\ SubSeq(n, Len(n) - Len(s) + 1, Len(n)) = s

\* The names above in Python's string order (used where the code sorts, and
\* as the order of the rest of a directory listing).
SortedNames ==
  <<"Generated Installer", "app.exe", "config.iss", "custom.png",
    "custom.png.ico", "demo Setup.exe", "icon.png", "icon.png.ico",
    "index.html", "notification_helper.exe", "package.json",
    "resources.pak", "root", "stray.txt">>

NameRank(name) == CHOOSE i \in DOMAIN SortedNames : SortedNames[i] = name

\* sorted(names) for a set of names
RECURSIVE SortNames(_)
SortNames(names) ==
  IF names = {} THEN <<>>
  ELSE LET first == CHOOSE n \in names :
                      \A m \in names : NameRank(n) <= NameRank(m)
       IN  <<first>> \o SortNames(names \ {first})

\* ----------------------------------------------------------- directories

IsPrefix(p, q) == Len(p) <= Len(q) /\ SubSeq(q, 1, Len(p)) = p

\* os.path.exists for a file or a directory of the tree
Exists(tree, path) == \E p \in DOMAIN tree : IsPrefix(path, p)

\* The direct children of a directory.
Children(tree, dir) ==
  {p[Len(dir) + 1] : p \in {q \in DOMAIN tree : IsPrefix(dir, q) /\ Len(q) > Len(dir)}}

\* os.listdir returns the children in arbitrary order: any child may come
\* first (the rest is listed in name order).
ListDirOrders(tree, dir) ==
  LET names == Children(tree, dir)
  IN  IF names = {} THEN {<<>>}
      ELSE {<<c>> \o SortNames(names \ {c}) : c \in names}

\* The tree with one file written.
WriteFile(tree, path, data) ==
  [p \in DOMAIN tree \cup {path} |-> IF p = path THEN data ELSE tree[p]]

\* The tree with one file removed.
RemoveFile(tree, path) == [p \in DOMAIN tree \ {path} |-> tree[p]]

EmptyTree == [p \in {} |-> ""]

\* --------------------------------------------------------------- archives

\* A file outside the temporary directories: a zip archive with its entries
\* in order, or some other file.
ZipArchive(entries) == [zip |-> TRUE, entries |-> entries, data |-> "zip"]
OtherFile(data) == [zip |-> FALSE, entries |-> <<>>, data |-> data]

Entry(name, data) == [name |-> name, data |-> data]

\* ZipInfo.is_dir: the entry's name ends with '/'
IsDirEntry(e) == e.name[Len(e.name)] = ""

\* ZipFile.extractall into an empty directory: every file entry is written
\* below the destination (a later entry of the same name overwrites).
ExtractAll(entries) ==
  LET files == {i \in DOMAIN entries : ~IsDirEntry(entries[i])}
      names == {entries[i].name : i \in files}
      last(p) == CHOOSE i \in files :
                   /\ entries[i].name = p
                   /\ \A j \in files : entries[j].name = p => j <= i
  IN  [p \in names |-> entries[last(p)].data]

\* info.filename.split('/')[0] of the first entry
get_zip_inner_folder_name(entries) == entries[1].name[1]

\* A variant of verify_folder that accepts every folder.
verify_folder_any(tree, folder) == TRUE

\* os.path.exists(os.path.join(folder, 'resources.pak'))
verify_folder(tree, folder) == Exists(tree, folder \o <<"resources.pak">>)

\* ExtractWorker._run as a function of the archive file: the tree written,
\* and either the extracted root or the error raised.
ExtractWorker_run(file) ==
  IF ~file.zip
    THEN [ok |-> FALSE, tree |-> EmptyTree, value |-> <<>>,
          err |-> "File is not a zip file"]
  ELSE LET tree == ExtractAll(file.entries)
       IN  IF file.entries = <<>>
             THEN [ok |-> FALSE, tree |-> tree, value |-> <<>>,
                   err |-> "list index out of range"]
           ELSE LET extracted_contents ==
                      <<get_zip_inner_folder_name(file.entries)>>
                IN  IF ~verify_folder(tree, extracted_contents)
                      THEN [ok |-> FALSE, tree |-> tree, value |-> <<>>,
                            err |-> "Invalid zip selected"]
                    ELSE [ok |-> TRUE, tree |-> tree,
                          value |-> extracted_contents, err |-> ""]

\* shutil.make_archive(name, 'zip', root_dir): os.walk from the root; in
\* each directory the sub-directories are written first, sorted, then the
\* files, then the walk descends.
SubDirs(tree, dir) == {c \in Children(tree, dir) : dir \o <<c>> \notin DOMAIN tree}
FilesIn(tree, dir) == {c \in Children(tree, dir) : dir \o <<c>> \in DOMAIN tree}

RECURSIVE ConcatAll(_)
ConcatAll(seqs) ==
  IF seqs = <<>> THEN <<>> ELSE Head(seqs) \o ConcatAll(Tail(seqs))

RECURSIVE WalkEntries(_, _)
WalkEntries(tree, dir) ==
  LET dirs  == SortNames(SubDirs(tree, dir))
      files == SortNames(FilesIn(tree, dir))
  IN  [i \in DOMAIN dirs |-> Entry(dir \o <<dirs[i], "">>, "dir")]
      \o [i \in DOMAIN files |->
            Entry(dir \o <<files[i]>>, tree[dir \o <<files[i]>>])]
      \o ConcatAll([i \in DOMAIN dirs |-> WalkEntries(tree, dir \o <<dirs[i]>>)])

make_archive(tree) == ZipArchive(WalkEntries(tree, <<>>))

\* ------------------------------------------------- functions of src/app.py

Raise(tree, err) == [ok |-> FALSE, tree |-> tree, value |-> "", err |-> err]
Return(tree, value) == [ok |-> TRUE, tree |-> tree, value |-> value, err |-> ""]

\* A variant of get_executable_name that does not set the helper aside.
RECURSIVE get_executable_name_any_exe(_)
get_executable_name_any_exe(listing) ==
  IF listing = <<>> THEN ""
  ELSE IF EndsWith(Head(listing), ".exe") THEN Head(listing)
       ELSE get_executable_name_any_exe(Tail(listing))

\* get_executable_name on a directory listing: the first name that ends
\* with '.exe' and is not the helper; "" stands for the exception.
RECURSIVE get_executable_name(_)
get_executable_name(listing) ==
  IF listing = <<>> THEN ""
  ELSE IF /\ EndsWith(Head(listing), ".exe")
          /\ Head(listing) # "notification_helper.exe"
         THEN Head(listing)
       ELSE get_executable_name(Tail(listing))

\* json.load of the package.json contents the model uses.
JsonLoad(data) ==
  CASE data = "json{name}" ->
         [valid |-> TRUE, has_name |-> TRUE, name |-> "demo",
          has_window |-> FALSE, has_icon |-> FALSE, icon |-> ""]
    [] data = "json{name,window{icon}}" ->
         [valid |-> TRUE, has_name |-> TRUE, name |-> "demo",
          has_window |-> TRUE, has_icon |-> TRUE, icon |-> "custom.png"]
    [] data = "json{name,window{}}" ->
         [valid |-> TRUE, has_name |-> TRUE, name |-> "demo",
          has_window |-> TRUE, has_icon |-> FALSE, icon |-> ""]
    [] OTHER ->
         [valid |-> FALSE, has_name |-> FALSE, name |-> "",
          has_window |-> FALSE, has_icon |-> FALSE, icon |-> ""]

\* parse_package_json: value is the parsed manifest
parse_package_json(tree, path) ==
  LET file == path \o <<"package.json">>
  IN  IF file \notin DOMAIN tree
        THEN [ok |-> FALSE, value |-> JsonLoad(""), err |-> "No such file or directory"]
      ELSE IF ~JsonLoad(tree[file]).valid
        THEN [ok |-> FALSE, value |-> JsonLoad(""), err |-> "Expecting value"]
      ELSE [ok |-> TRUE, value |-> JsonLoad(tree[file]), err |-> ""]

\* PIL can open the file as an image
IsImage(data) == data = "png"

\* get_icon_as_ico: the icon is icon.png unless package.json has a 'window'
\* block, whose 'icon' is then used; the image is saved next to it as
\* <name>.ico.  value is the name of the .ico file inside path.
get_icon_as_ico(tree, path) ==
  LET pj == parse_package_json(tree, path)
  IN  IF ~pj.ok THEN Raise(tree, pj.err)
      ELSE IF pj.value.has_window /\ ~pj.value.has_icon
        THEN Raise(tree, "'icon'")
      ELSE LET original_icon_name ==
                 IF pj.value.has_window THEN pj.value.icon ELSE "icon.png"
               original_icon_full_path == path \o <<original_icon_name>>
           IN  IF original_icon_full_path \notin DOMAIN tree
                 THEN Raise(tree, "No such file or directory")
               ELSE IF ~IsImage(tree[original_icon_full_path])
                 THEN Raise(tree, "cannot identify image file")
               ELSE Return(WriteFile(tree, path \o <<original_icon_name \o ".ico">>,
                                     "ico(" \o original_icon_name \o ")"),
                           original_icon_name \o ".ico")

\* fix_icon: locate the executable, convert the icon, run rcedit on the
\* executable.  listing is what os.listdir returned, rcedit_ok whether the
\* tool exits with code 0.
fix_icon(tree, path, listing, rcedit_ok) ==
  LET executable == get_executable_name(listing)
  IN  IF executable = "" THEN Raise(tree, "Cannot find executable")
      ELSE LET icon == get_icon_as_ico(tree, path)
           IN  IF ~icon.ok THEN icon
               ELSE IF ~rcedit_ok
                 THEN Raise(icon.tree, "returned non-zero exit status")
               ELSE Return(WriteFile(icon.tree, path \o <<executable>>,
                                     "exe[" \o icon.tree[path \o <<icon.value>>] \o "]"),
                           "")

\* get_project_title: value is the title, raising when index.html is
\* missing or has no <title> (re.search returns None).
get_project_title(tree, path) ==
  LET file == path \o <<"index.html">>
  IN  IF file \notin DOMAIN tree THEN Raise(tree, "No such file or directory")
      ELSE IF tree[file] # "html<title>"
        THEN Raise(tree, "'NoneType' object has no attribute 'group'")
      ELSE Return(tree, "Demo App")

\* str.replace(old, new) for a one-character old, on the sequence of the
\* string's characters.
RECURSIVE Replace(_, _, _)
Replace(string, old, new) ==
  IF string = <<>> THEN <<>>
  ELSE (IF Head(string) = old THEN new ELSE <<Head(string)>>)
       \o Replace(Tail(string), old, new)

\* A variant of escape_inno_value that leaves the quotes in.
escape_inno_value_keeps_quotes(string) == Replace(string, "{", <<"{", "{">>)

\* escape_inno_value
escape_inno_value(string) ==
  Replace(Replace(string, "{", <<"{", "{">>), "\"", <<>>)

\* The outcomes of running iscc.exe on the script.
IsccOutcomes == {"fails", "builds", "builds elsewhere"}

\* create_installer: value is the path of the built installer.
create_installer(tree, path, listing, iscc) ==
  LET executable_file == get_executable_name(listing)
      pj == parse_package_json(tree, path)
  IN  IF executable_file = "" THEN Raise(tree, "Cannot find executable")
      ELSE IF ~pj.ok THEN Raise(tree, pj.err)
      ELSE IF ~pj.value.has_name THEN Raise(tree, "'name'")
      ELSE LET title == get_project_title(tree, path)
           IN  IF ~title.ok THEN title
               ELSE LET icon == get_icon_as_ico(tree, path)
                    IN  IF ~icon.ok THEN icon
                        ELSE LET scripted == WriteFile(icon.tree, path \o <<"config.iss">>, "iss")
                                 expected_output_file ==
                                   path \o <<"Generated Installer",
                                             pj.value.name \o " Setup.exe">>
                                 built == IF iscc = "builds"
                                            THEN WriteFile(scripted, expected_output_file, "setup")
                                            ELSE scripted
                             IN  IF iscc = "fails"
                                   THEN Raise(scripted, "returned non-zero exit status")
                                 ELSE IF expected_output_file \notin DOMAIN built
                                   THEN Raise(built, "Did not output to expected spot")
                                 ELSE [ok |-> TRUE, tree |-> built,
                                       value |-> expected_output_file, err |-> ""]

\* ------------------------------------------------------------------ state

VARIABLES
  disk,               \* the user's files: path -> ZipArchive or OtherFile
  tmpfs,              \* the temporary directories that exist: id -> tree
  tmp_count,          \* how many temporary directories tempfile has made
  configure_widget,   \* MainWindow.configure_widget: None or the project widget
  select_widget,      \* whether the select widget is in the window's layout
  is_process_ongoing, \* MainWindow.is_process_ongoing
  workers,            \* the background threads that are running
  queue,              \* signals emitted by the workers, queued for the UI thread
  msgbox,             \* the text of the last message box shown
  revealed,           \* the path last passed to reveal_in_explorer ("" if none)
  attempt,            \* history of the latest options worker (for the properties)
  last,               \* the handler or worker step that ran last (for the properties)
  call,               \* a call of one of the functions alone: its name and argument
  returned            \* what that call returned or raised

vars == <<disk, tmpfs, tmp_count, configure_widget, select_widget,
          is_process_ongoing, workers, queue, msgbox, revealed, attempt, last,
          call, returned>>

None == [none |-> TRUE]

\* The part of the state the UI thread's handlers work on.
UI == [configure_widget |-> configure_widget, select_widget |-> select_widget,
       is_process_ongoing |-> is_process_ongoing, tmpfs |-> tmpfs,
       tmp_count |-> tmp_count, workers |-> workers, msgbox |-> msgbox,
       revealed |-> revealed]

Apply(s) ==
  /\ configure_widget' = s.configure_widget
  /\ select_widget' = s.select_widget
  /\ is_process_ongoing' = s.is_process_ongoing
  /\ tmpfs' = s.tmpfs
  /\ tmp_count' = s.tmp_count
  /\ workers' = s.workers
  /\ msgbox' = s.msgbox
  /\ revealed' = s.revealed

\* --------------------------------------------------------------- the input

RootFile(name, data) == Entry(<<"root", name>>, data)

\* The archive of the spec's end-to-end scenario.
DemoEntries ==
  <<RootFile("app.exe", "exe"), RootFile("resources.pak", "pak"),
    RootFile("icon.png", "png"), RootFile("package.json", "json{name}"),
    RootFile("index.html", "html<title>")>>

\* The archives a behaviour may start with.
SampleArchives ==
  { ZipArchive(DemoEntries),
    \* index.html without a <title>
    ZipArchive([DemoEntries EXCEPT ![5] = RootFile("index.html", "html")]),
    \* an icon override in package.json, both icons present, and the helper
    ZipArchive(<<RootFile("notification_helper.exe", "exe")>> \o
               [DemoEntries EXCEPT ![4] = RootFile("package.json", "json{name,window{icon}}")]
               \o <<RootFile("custom.png", "png")>>),
    \* a window block without an icon
    ZipArchive([DemoEntries EXCEPT ![4] = RootFile("package.json", "json{name,window{}}")]),
    \* no executable but the helper
    ZipArchive([DemoEntries EXCEPT ![1] = RootFile("notification_helper.exe", "exe")]),
    \* no marker file
    ZipArchive(<<DemoEntries[1], DemoEntries[3]>>),
    \* an entry outside the first entry's root, last and first
    ZipArchive(DemoEntries \o <<Entry(<<"stray.txt">>, "text")>>),
    ZipArchive(<<Entry(<<"stray.txt">>, "text")>> \o DemoEntries),
    \* no entries, and not an archive
    ZipArchive(<<>>),
    OtherFile("text") }

\* The file the user opens.
ArchivePath == "C:/Downloads/demo.zip"

\* What the save dialog returns: "" when cancelled, else the path chosen,
\* which may be any path, the archive's included.
DialogResults == {"", "C:/Downloads/demo Setup.exe", ArchivePath}

NoAttempt ==
  [run |-> 0, n |-> 0, file |-> "", fix |-> FALSE, inst |-> FALSE,
   asked |-> FALSE, dest |-> "", archive0 |-> OtherFile(""), log |-> <<>>, outcome |-> "none"]

\* No function is called on its own while the program runs.
NoCall == [fn |-> "", arg |-> <<>>]
NotReturned == [done |-> FALSE, ok |-> FALSE, value |-> <<>>, err |-> ""]

Init ==
  /\ disk \in [{ArchivePath} -> SampleArchives]
  /\ call = NoCall
  /\ returned = NotReturned
  /\ tmpfs = [i \in {} |-> EmptyTree]
  /\ tmp_count = 0
  /\ configure_widget = None
  /\ select_widget = "shown"
  /\ is_process_ongoing = FALSE
  /\ workers = {}
  /\ queue = <<>>
  /\ msgbox = ""
  /\ revealed = ""
  /\ attempt = NoAttempt
  /\ last = "init"

\* ------------------------------------------------------- worker threads

Signal(worker, sig, text, path) ==
  [worker |-> worker, sig |-> sig, text |-> text, path |-> path]

\* ExtractWorker.__init__
ExtractWorker(id, filename, dest) ==
  [id |-> id, kind |-> "extract", pc |-> 1, filename |-> filename,
   temporary_directory |-> dest, extracted_contents |-> <<>>,
   should_fix_icon |-> FALSE, should_create_installer |-> FALSE,
   installer_destination |-> "", generated_installer_path |-> <<>>]

\* Variants of OptionsWorker._run with a slip in the order or the conditions
\* of its steps.
OptionsWorker_run_rezip_last(w) ==
  (IF w.should_fix_icon THEN <<"fix_icon">> ELSE <<>>)
  \o (IF w.should_create_installer THEN <<"create_installer", "move">> ELSE <<>>)
  \o (IF w.should_fix_icon THEN <<"rezip">> ELSE <<>>)
  \o <<"success">>

OptionsWorker_run_always_rezip(w) ==
  (IF w.should_fix_icon THEN <<"fix_icon">> ELSE <<>>)
  \o <<"rezip">>
  \o (IF w.should_create_installer THEN <<"create_installer", "move">> ELSE <<>>)
  \o <<"success">>

OptionsWorker_run_always_installer(w) ==
  (IF w.should_fix_icon THEN <<"fix_icon", "rezip">> ELSE <<>>)
  \o <<"create_installer", "move", "success">>

\* OptionsWorker._run as the sequence of its steps.
OptionsWorker_run(w) ==
  (IF w.should_fix_icon THEN <<"fix_icon", "rezip">> ELSE <<>>)
  \o (IF w.should_create_installer THEN <<"create_installer", "move">> ELSE <<>>)
  \o <<"success">>

\* The step a running worker is at.
Step(w) == IF w.kind = "extract" THEN "extract" ELSE OptionsWorker_run(w)[w.pc]

\* --------------------------------------------------- the UI thread's code

\* MainWindow.on_process_started, on_process_ended, on_project_done
on_process_started(s) == [s EXCEPT !.is_process_ongoing = TRUE]
on_process_ended(s) == [s EXCEPT !.is_process_ongoing = FALSE]
on_project_done(s) ==
  [s EXCEPT !.configure_widget = None, !.select_widget = "shown"]

\* handle_error, display_error and display_success show a modal message box.
handle_error(s, error) == [s EXCEPT !.msgbox = "Error: " \o error]
display_error(s, err) == [s EXCEPT !.msgbox = "Error: " \o err]
display_success(s, message) == [s EXCEPT !.msgbox = message]

\* path.replace('/', '\\') for the paths of the user's files
Backslashes(path) ==
  CASE path = "C:/Downloads/demo.zip" -> "C:\\Downloads\\demo.zip"
    [] path = "C:/Downloads/demo Setup.exe" -> "C:\\Downloads\\demo Setup.exe"
    [] path = "" -> ""

\* reveal_in_explorer: explorer.exe is given the path with backslashes.
reveal_in_explorer(s, path) == [s EXCEPT !.revealed = Backslashes(path)]

\* A variant of ProjectOptionsWidget.__init__ that builds the check boxes
\* and the buttons at once, shown.
ProjectOptionsWidget_with_controls(s, filename) ==
  LET dir == s.tmp_count + 1
  IN  [s EXCEPT
        !.tmp_count = dir,
        !.tmpfs = [i \in DOMAIN s.tmpfs \cup {dir} |->
                     IF i = dir THEN EmptyTree ELSE s.tmpfs[i]],
        !.configure_widget =
          [filename |-> filename, temporary_directory |-> dir,
           extracted_contents |-> <<>>, controls |-> "visible",
           fix_icon_checkbox |-> FALSE, create_installer_checkbox |-> FALSE,
           progress_widget |-> None, file_to_reveal |-> "", attempts |-> 0],
        !.workers = s.workers \cup {ExtractWorker(<<dir, 0>>, filename, dir)}]

\* ProjectOptionsWidget.__init__: a fresh temporary directory, and the
\* extraction worker started.
ProjectOptionsWidget(s, filename) ==
  LET dir == s.tmp_count + 1
  IN  [s EXCEPT
        !.tmp_count = dir,
        !.tmpfs = [i \in DOMAIN s.tmpfs \cup {dir} |->
                     IF i = dir THEN EmptyTree ELSE s.tmpfs[i]],
        !.configure_widget =
          [filename |-> filename, temporary_directory |-> dir,
           extracted_contents |-> <<>>, controls |-> "absent",
           fix_icon_checkbox |-> FALSE, create_installer_checkbox |-> FALSE,
           progress_widget |-> None, file_to_reveal |-> "", attempts |-> 0],
        !.workers = s.workers \cup {ExtractWorker(<<dir, 0>>, filename, dir)}]

\* A variant of on_file_selected without the check for an open project.
on_file_selected_unguarded(s, file, created) ==
  IF ~created
    THEN handle_error([s EXCEPT !.is_process_ongoing = TRUE],
                      "No usable temporary directory found")
  ELSE [ProjectOptionsWidget([s EXCEPT !.is_process_ongoing = TRUE], file)
          EXCEPT !.select_widget = "hidden"]

\* MainWindow.on_file_selected.  created tells whether the constructor of
\* the project widget returns: tempfile.TemporaryDirectory() raises when no
\* directory can be made, and the handler then reports the error with the
\* flag already set.
on_file_selected(s, file, created) ==
  IF s.configure_widget # None
    THEN handle_error(s, "Already have a file open")
  ELSE IF ~created
    THEN handle_error([s EXCEPT !.is_process_ongoing = TRUE],
                      "No usable temporary directory found")
  ELSE [ProjectOptionsWidget([s EXCEPT !.is_process_ongoing = TRUE], file)
          EXCEPT !.select_widget = "hidden"]

\* MainWindow.dropEvent
dropEvent(s, file, created) ==
  IF ~s.is_process_ongoing THEN on_file_selected(s, file, created) ELSE s

\* MainWindow.closeEvent: while the flag is set the user is asked to
\* confirm, and the event is ignored unless the reply is Yes; otherwise
\* the event is accepted as it comes.
closeEvent(s, reply) ==
  IF s.is_process_ongoing
    THEN [asked |-> TRUE, accepted |-> reply = "Yes"]
  ELSE [asked |-> FALSE, accepted |-> TRUE]

\* ProjectOptionsWidget.finished_extract
finished_extract(s, extracted_contents) ==
  [on_process_ended(s) EXCEPT
     !.configure_widget.extracted_contents = extracted_contents,
     !.configure_widget.fix_icon_checkbox = TRUE,
     !.configure_widget.create_installer_checkbox = TRUE,
     !.configure_widget.controls = "visible"]

\* A variant of set_enable_controls that leaves the controls as they are.
set_enable_controls_noop(s, enabled) == s

\* ProjectOptionsWidget.set_enable_controls: the check boxes and the two
\* buttons are shown or hidden, when they exist.
set_enable_controls(s, enabled) ==
  IF s.configure_widget.controls = "absent" THEN s
  ELSE [s EXCEPT !.configure_widget.controls =
                    IF enabled THEN "visible" ELSE "hidden"]

\* Variants of cleanup: one that does not emit process_ended, one that does
\* not show the controls again.
cleanup_keeps_flag(s) ==
  set_enable_controls([s EXCEPT !.configure_widget.progress_widget = None], TRUE)

cleanup_keeps_hidden(s) ==
  [on_process_ended(s) EXCEPT !.configure_widget.progress_widget = None]

\* ProjectOptionsWidget.cleanup
cleanup(s) ==
  set_enable_controls(
    [on_process_ended(s) EXCEPT !.configure_widget.progress_widget = None],
    TRUE)

\* A variant of remove that leaves the temporary directory behind.
remove_keeps_directory(s) == on_project_done(s)

\* ProjectOptionsWidget.remove
remove(s) ==
  on_project_done(
    [s EXCEPT !.tmpfs =
       [i \in DOMAIN s.tmpfs \ {s.configure_widget.temporary_directory} |->
          s.tmpfs[i]]])

\* ProjectOptionsWidget.click_cancel
click_cancel(s) == remove(s)

\* A variant of worker_error that only reports the error.
worker_error_no_cleanup(s, err) == display_error(s, err)

\* ProjectOptionsWidget.worker_error
worker_error(s, err) == cleanup(display_error(s, err))

\* A variant of extract_worker_error that keeps the run.
extract_worker_error_keeps_run(s, err) == cleanup(display_error(s, err))

\* ProjectOptionsWidget.extract_worker_error
extract_worker_error(s, err) == remove(worker_error(s, err))

\* ProjectOptionsWidget.worker_finished
worker_finished(s) ==
  LET shown == display_success(s, "Success")
      told  == IF shown.configure_widget.file_to_reveal # ""
                 THEN reveal_in_explorer(shown, shown.configure_widget.file_to_reveal)
                 ELSE shown
  IN  remove(cleanup(told))

\* ProgressWidget.handle_progress_update
handle_progress_update(s, text) ==
  IF s.configure_widget.progress_widget = None THEN s
  ELSE [s EXCEPT !.configure_widget.progress_widget.text = Append(@, text)]

\* A variant of pick_installer_destination that accepts a cancelled dialog.
pick_installer_destination_unchecked(s, dialog) ==
  [ok |-> TRUE, s |-> [s EXCEPT !.configure_widget.file_to_reveal = dialog],
   value |-> dialog, err |-> ""]

\* ProjectOptionsWidget.pick_installer_destination; dialog is what
\* getSaveFileName returns.
pick_installer_destination(s, dialog) ==
  IF dialog = ""
    THEN [ok |-> FALSE, s |-> s, value |-> "", err |-> "No file selected"]
  ELSE [ok |-> TRUE, s |-> [s EXCEPT !.configure_widget.file_to_reveal = dialog],
        value |-> dialog, err |-> ""]

\* OptionsWorker.__init__: the options are read from the check boxes, and
\* the destination is asked for when an installer is wanted.
OptionsWorker(s, dialog) ==
  LET parent == s.configure_widget
      worker ==
        [id |-> <<parent.temporary_directory, parent.attempts + 1>>,
         kind |-> "options", pc |-> 1, filename |-> parent.filename,
         temporary_directory |-> parent.temporary_directory,
         extracted_contents |-> parent.extracted_contents,
         should_fix_icon |-> parent.fix_icon_checkbox,
         should_create_installer |-> parent.create_installer_checkbox,
         installer_destination |-> "", generated_installer_path |-> <<>>]
  IN  IF worker.should_create_installer
        THEN LET picked == pick_installer_destination(s, dialog)
             IN  [ok |-> picked.ok, s |-> picked.s, err |-> picked.err,
                  asked |-> TRUE,
                  worker |-> [worker EXCEPT !.installer_destination = picked.value]]
      ELSE [ok |-> TRUE, s |-> s, err |-> "", asked |-> FALSE, worker |-> worker]

\* A variant of click's line 383 that keeps the path of the attempt before.
forget_file_to_reveal_noop(s) == s

\* ProjectOptionsWidget.click, line 383: self.file_to_reveal = None
forget_file_to_reveal(s) == [s EXCEPT !.configure_widget.file_to_reveal = ""]

\* ProjectOptionsWidget.click: s is the UI state after the handler,
\* started whether a worker was started, asked whether the save dialog was
\* shown, dest the destination the worker holds.
click(s, dialog) ==
  LET begun == on_process_started(s)
      w == begun.configure_widget
  IN  IF ~w.fix_icon_checkbox /\ ~w.create_installer_checkbox
        THEN [s |-> handle_error(cleanup(begun),
                                 "You have to check at least one of the boxes"),
              started |-> FALSE, asked |-> FALSE, dest |-> "",
              result |-> "no option"]
      ELSE LET hidden == set_enable_controls(begun, FALSE)
               reset  == forget_file_to_reveal(hidden)
               made   == OptionsWorker(reset, dialog)
           IN  IF ~made.ok
                 THEN [s |-> handle_error(cleanup(made.s), made.err),
                       started |-> FALSE, asked |-> made.asked, dest |-> "",
                       result |-> "no destination"]
               ELSE [s |-> [made.s EXCEPT
                              !.configure_widget.progress_widget = [text |-> <<>>],
                              !.configure_widget.attempts = @ + 1,
                              !.workers = @ \cup {made.worker}],
                     started |-> TRUE, asked |-> made.asked,
                     dest |-> made.worker.installer_destination,
                     result |-> "started"]

\* ------------------------------------------------------------ UI actions

\* What on_file_selected did, s being the UI state it left.
Selected(s) ==
  IF s.tmp_count > tmp_count THEN "on_file_selected"
  ELSE IF configure_widget # None THEN "on_file_selected: already open"
  ELSE "on_file_selected: failed"

\* The user picks a file with the select widget's button
\* (SelectWidget.click emits file_selected).
SelectFile ==
  /\ select_widget = "shown"
  /\ \E file \in DOMAIN disk, created \in BOOLEAN :
       LET s == on_file_selected(UI, file, created)
       IN  /\ s.tmp_count <= MaxRuns
           /\ Apply(s)
           /\ attempt' = IF s.tmp_count > tmp_count THEN NoAttempt ELSE attempt
           /\ last' = Selected(s)
  /\ UNCHANGED <<call, returned, disk, queue>>

\* The user drops a file on the window.
DropFile ==
  /\ \E file \in DOMAIN disk, created \in BOOLEAN :
       LET s == dropEvent(UI, file, created)
       IN  /\ s.tmp_count <= MaxRuns
           /\ Apply(s)
           /\ attempt' = IF s.tmp_count > tmp_count THEN NoAttempt ELSE attempt
           /\ last' = IF is_process_ongoing THEN "dropEvent: ignored"
                      ELSE Selected(s)
  /\ UNCHANGED <<call, returned, disk, queue>>

\* The user ticks or unticks a check box.
ToggleFixIcon ==
  /\ configure_widget # None
  /\ configure_widget.controls = "visible"
  /\ configure_widget' =
       [configure_widget EXCEPT !.fix_icon_checkbox = ~@]
  /\ last' = "toggle"
  /\ UNCHANGED <<call, returned, disk, tmpfs, tmp_count, select_widget, is_process_ongoing,
                 workers, queue, msgbox, revealed, attempt>>

ToggleCreateInstaller ==
  /\ configure_widget # None
  /\ configure_widget.controls = "visible"
  /\ configure_widget' =
       [configure_widget EXCEPT !.create_installer_checkbox = ~@]
  /\ last' = "toggle"
  /\ UNCHANGED <<call, returned, disk, tmpfs, tmp_count, select_widget, is_process_ongoing,
                 workers, queue, msgbox, revealed, attempt>>

\* The user presses Continue; dialog is the answer to the save dialog, if
\* it is shown.
Click ==
  /\ configure_widget # None
  /\ configure_widget.controls = "visible"
  /\ configure_widget.attempts < MaxAttempts
  /\ \E dialog \in DialogResults :
       LET r == click(UI, dialog)
       IN  /\ Apply(r.s)
           /\ attempt' =
                IF r.started
                  THEN [run |-> configure_widget.temporary_directory,
                        n |-> configure_widget.attempts + 1,
                        file |-> configure_widget.filename,
                        fix |-> configure_widget.fix_icon_checkbox,
                        inst |-> configure_widget.create_installer_checkbox,
                        asked |-> r.asked,
                        dest |-> r.dest,
                        archive0 |-> disk[configure_widget.filename],
                        log |-> <<>>, outcome |-> "running"]
                ELSE attempt
           /\ last' = "click: " \o r.result
  /\ UNCHANGED <<call, returned, disk, queue>>

\* The user presses Go Back.
ClickCancel ==
  /\ configure_widget # None
  /\ configure_widget.controls = "visible"
  /\ Apply(click_cancel(UI))
  /\ last' = "click_cancel"
  /\ UNCHANGED <<call, returned, disk, queue, attempt>>

\* The user closes the window.  An accepted close ends the program, so
\* that no step follows it; a close that is not accepted leaves the program
\* as it is.
CloseEvent ==
  /\ \E reply \in {"Yes", "No"} : ~closeEvent(UI, reply).accepted
  /\ last' = "closeEvent: ignored"
  /\ UNCHANGED <<call, returned, disk, tmpfs, tmp_count, configure_widget,
                 select_widget, is_process_ongoing, workers, queue, msgbox,
                 revealed, attempt>>

\* ------------------------------------------------- queued signal delivery

Delivering(worker, sig) ==
  /\ queue # <<>>
  /\ Head(queue).worker = worker
  /\ Head(queue).sig = sig
  /\ configure_widget # None
  /\ queue' = Tail(queue)

OnExtracted ==
  /\ Delivering("extract", "extracted")
  /\ Apply(finished_extract(UI, Head(queue).path))
  /\ last' = "finished_extract"
  /\ UNCHANGED <<call, returned, disk, attempt>>

OnExtractError ==
  /\ Delivering("extract", "error")
  /\ Apply(extract_worker_error(UI, Head(queue).text))
  /\ last' = "extract_worker_error"
  /\ UNCHANGED <<call, returned, disk, attempt>>

OnProgressUpdate ==
  /\ Delivering("options", "progress_update")
  /\ Apply(handle_progress_update(UI, Head(queue).text))
  /\ last' = "handle_progress_update"
  /\ UNCHANGED <<call, returned, disk, attempt>>

OnWorkerError ==
  /\ Delivering("options", "error")
  /\ Apply(worker_error(UI, Head(queue).text))
  /\ attempt' = [attempt EXCEPT !.outcome = "error"]
  /\ last' = "worker_error"
  /\ UNCHANGED <<call, returned, disk>>

OnWorkerFinished ==
  /\ Delivering("options", "success")
  /\ Apply(worker_finished(UI))
  /\ attempt' = [attempt EXCEPT !.outcome = "success"]
  /\ last' = "worker_finished"
  /\ UNCHANGED <<call, returned, disk>>

\* --------------------------------------------------------- worker actions

\* A variant of BaseThread.run that swallows the exception of _run.
BaseThread_run_silent(kind, result) == <<>>

\* BaseThread.run: an exception of _run becomes the error signal.
BaseThread_run(kind, result) ==
  IF result.ok THEN <<>> ELSE <<Signal(kind, "error", result.err, <<>>)>>

\* OptionsWorker.update_progress
update_progress(text) == <<Signal("options", "progress_update", text, <<>>)>>

\* The threads after worker w has taken a step: w goes on to its next step
\* as w2, or has finished when the step raised.
Advance(w, w2, result) ==
  IF result.ok THEN (workers \ {w}) \cup {[w2 EXCEPT !.pc = @ + 1]}
  ELSE workers \ {w}

Logged(step) == [attempt EXCEPT !.log = Append(@, step)]

SetTree(dir, tree) == [tmpfs EXCEPT ![dir] = tree]

\* ExtractWorker._run
WorkerExtract ==
  \E w \in workers :
    /\ Step(w) = "extract"
    /\ w.temporary_directory \in DOMAIN tmpfs
    /\ LET r == ExtractWorker_run(disk[w.filename])
       IN  /\ tmpfs' = SetTree(w.temporary_directory, r.tree)
           /\ queue' = queue \o BaseThread_run("extract", r)
                             \o (IF r.ok
                                   THEN <<Signal("extract", "extracted", "", r.value)>>
                                   ELSE <<>>)
    /\ workers' = workers \ {w}
    /\ last' = "worker: extract"
    /\ UNCHANGED <<call, returned, disk, tmp_count, configure_widget, select_widget,
                   is_process_ongoing, msgbox, revealed, attempt>>

\* OptionsWorker._run, lines 247-248
WorkerFixIcon ==
  \E w \in workers :
    /\ Step(w) = "fix_icon"
    /\ w.temporary_directory \in DOMAIN tmpfs
    /\ \E listing \in ListDirOrders(tmpfs[w.temporary_directory], w.extracted_contents),
          rcedit_ok \in BOOLEAN :
         LET r == fix_icon(tmpfs[w.temporary_directory], w.extracted_contents,
                           listing, rcedit_ok)
         IN  /\ tmpfs' = SetTree(w.temporary_directory, r.tree)
             /\ queue' = queue \o update_progress("Fixing icon")
                               \o BaseThread_run("options", r)
             /\ workers' = Advance(w, w, r)
    /\ attempt' = Logged("fix_icon")
    /\ last' = "worker: fix_icon"
    /\ UNCHANGED <<call, returned, disk, tmp_count, configure_widget, select_widget,
                   is_process_ongoing, msgbox, revealed>>

\* OptionsWorker.rezip: the temporary directory is archived and the archive
\* moved over the original file; either call may fail.
WorkerRezip ==
  \E w \in workers :
    /\ Step(w) = "rezip"
    /\ w.temporary_directory \in DOMAIN tmpfs
    /\ \E written \in BOOLEAN :
         LET r == IF written THEN Return(EmptyTree, "")
                  ELSE Raise(EmptyTree, "cannot write the archive")
         IN  /\ disk' = IF written
                          THEN WriteFile(disk, w.filename,
                                         make_archive(tmpfs[w.temporary_directory]))
                          ELSE disk
             /\ queue' = queue \o update_progress("Recompressing (slow!)")
                               \o BaseThread_run("options", r)
             /\ workers' = Advance(w, w, r)
    /\ attempt' = Logged("rezip")
    /\ last' = "worker: rezip"
    /\ UNCHANGED <<call, returned, tmpfs, tmp_count, configure_widget, select_widget,
                   is_process_ongoing, msgbox, revealed>>

\* OptionsWorker._run, lines 251-252
WorkerCreateInstaller ==
  \E w \in workers :
    /\ Step(w) = "create_installer"
    /\ w.temporary_directory \in DOMAIN tmpfs
    /\ \E listing \in ListDirOrders(tmpfs[w.temporary_directory], w.extracted_contents),
          iscc \in IsccOutcomes :
         LET r == create_installer(tmpfs[w.temporary_directory],
                                   w.extracted_contents, listing, iscc)
         IN  /\ tmpfs' = SetTree(w.temporary_directory, r.tree)
             /\ queue' = queue \o update_progress("Creating installer (very slow!!)")
                               \o BaseThread_run("options", r)
             /\ workers' =
                  Advance(w, [w EXCEPT !.generated_installer_path = r.value], r)
    /\ attempt' = Logged("create_installer")
    /\ last' = "worker: create_installer"
    /\ UNCHANGED <<call, returned, disk, tmp_count, configure_widget, select_widget,
                   is_process_ongoing, msgbox, revealed>>

\* OptionsWorker._run, line 253: os.replace of the installer to the
\* destination, which may fail.
WorkerMove ==
  \E w \in workers :
    /\ Step(w) = "move"
    /\ w.temporary_directory \in DOMAIN tmpfs
    /\ \E moved \in BOOLEAN :
         LET tree == tmpfs[w.temporary_directory]
             r == IF moved THEN Return(EmptyTree, "")
                  ELSE Raise(EmptyTree, "cannot move the file")
         IN  /\ disk' = IF moved
                          THEN WriteFile(disk, w.installer_destination,
                                         OtherFile(tree[w.generated_installer_path]))
                          ELSE disk
             /\ tmpfs' = IF moved
                           THEN SetTree(w.temporary_directory,
                                        RemoveFile(tree, w.generated_installer_path))
                           ELSE tmpfs
             /\ queue' = queue \o BaseThread_run("options", r)
             /\ workers' = Advance(w, w, r)
    /\ attempt' = Logged("move")
    /\ last' = "worker: move"
    /\ UNCHANGED <<call, returned, tmp_count, configure_widget, select_widget,
                   is_process_ongoing, msgbox, revealed>>

\* OptionsWorker._run, line 254
WorkerSuccess ==
  \E w \in workers :
    /\ Step(w) = "success"
    /\ queue' = Append(queue, Signal("options", "success", "", <<>>))
    /\ workers' = workers \ {w}
    /\ attempt' = Logged("success")
    /\ last' = "worker: success"
    /\ UNCHANGED <<call, returned, disk, tmpfs, tmp_count, configure_widget, select_widget,
                   is_process_ongoing, msgbox, revealed>>

Next ==
  \/ SelectFile
  \/ DropFile
  \/ ToggleFixIcon
  \/ ToggleCreateInstaller
  \/ Click
  \/ ClickCancel
  \/ CloseEvent
  \/ OnExtracted
  \/ OnExtractError
  \/ OnProgressUpdate
  \/ OnWorkerError
  \/ OnWorkerFinished
  \/ WorkerExtract
  \/ WorkerFixIcon
  \/ WorkerRezip
  \/ WorkerCreateInstaller
  \/ WorkerMove
  \/ WorkerSuccess

Spec == Init /\ [][Next]_vars

\* ------------------------------------------------ the functions alone

\* The sequences over a set up to a length.
SeqsUpTo(S, n) == UNION {[1..k -> S] : k \in 0..n}

\* Directory listings: file names in some order, none twice.
ListingNames ==
  {"app.exe", "demo Setup.exe", "notification_helper.exe", "resources.pak"}
Listings ==
  {l \in SeqsUpTo(ListingNames, MaxListing) :
     \A i, j \in DOMAIN l : l[i] = l[j] => i = j}

\* Strings over characters that matter to the escaping and two that do not.
StringChars == {"{", "\"", "}", "a"}
Strings == SeqsUpTo(StringChars, MaxString)

\* Extracted applications: a manifest of each kind, with or without the
\* default icon and the icon the override names.
IconTree(manifest, default, custom) ==
  LET files == {<<"root", "package.json">>}
               \cup (IF default THEN {<<"root", "icon.png">>} ELSE {})
               \cup (IF custom THEN {<<"root", "custom.png">>} ELSE {})
  IN  [p \in files |-> IF p = <<"root", "package.json">> THEN manifest ELSE "png"]
IconTrees ==
  {IconTree(m, d, c) :
     m \in {"json{name}", "json{name,window{icon}}", "json{name,window{}}"},
     d \in BOOLEAN, c \in BOOLEAN}

Calls ==
  {[fn |-> "get_executable_name", arg |-> l] : l \in Listings}
  \cup {[fn |-> "escape_inno_value", arg |-> s] : s \in Strings}
  \cup {[fn |-> "get_icon_as_ico", arg |-> tree] : tree \in IconTrees}

\* One function is called on one argument; the program itself is as it was
\* constructed and takes no step.
FunctionInit ==
  /\ call \in Calls
  /\ returned = NotReturned
  /\ disk = [f \in {ArchivePath} |-> ZipArchive(DemoEntries)]
  /\ tmpfs = [i \in {} |-> EmptyTree]
  /\ tmp_count = 0
  /\ configure_widget = None
  /\ select_widget = "shown"
  /\ is_process_ongoing = FALSE
  /\ workers = {}
  /\ queue = <<>>
  /\ msgbox = ""
  /\ revealed = ""
  /\ attempt = NoAttempt
  /\ last = "init"

\* The function named is the one called, and has not returned yet; the
\* program takes no step.
Calling(fn) ==
  /\ call.fn = fn
  /\ ~returned.done
  /\ UNCHANGED <<call, disk, tmpfs, tmp_count, configure_widget, select_widget,
                 is_process_ongoing, workers, queue, msgbox, revealed, attempt,
                 last>>

Returned(ok, value, err) ==
  [done |-> TRUE, ok |-> ok, value |-> value, err |-> err]

CallGetExecutableName ==
  /\ Calling("get_executable_name")
  /\ LET name == get_executable_name(call.arg)
     IN  returned' = Returned(name # "", name,
                              IF name = "" THEN "Cannot find executable" ELSE "")

CallEscapeInnoValue ==
  /\ Calling("escape_inno_value")
  /\ returned' = Returned(TRUE, escape_inno_value(call.arg), "")

CallGetIconAsIco ==
  /\ Calling("get_icon_as_ico")
  /\ LET r == get_icon_as_ico(call.arg, <<"root">>)
     IN  returned' = Returned(r.ok, r.value, r.err)

FunctionNext ==
  \/ CallGetExecutableName
  \/ CallEscapeInnoValue
  \/ CallGetIconAsIco

FunctionSpec == FunctionInit /\ [][FunctionNext]_vars

\* ------------------------------------------------------------ the run

Open == configure_widget # None
Extracting == Open /\ configure_widget.controls = "absent"
Ready == Open /\ configure_widget.controls = "visible"
Running == Open /\ configure_widget.controls = "hidden"

\* The run's temporary directory still exists.
TempDirPresent == Open /\ configure_widget.temporary_directory \in DOMAIN tmpfs

Queued(worker, sig) ==
  \E i \in DOMAIN queue : queue[i].worker = worker /\ queue[i].sig = sig

InLog(step) == \E i \in DOMAIN attempt.log : attempt.log[i] = step

\* ------------------------------------------------------------- properties

\* What makes an archive fail extraction: it cannot be read, it has no
\* entry, or resources.pak is missing under the first entry's root.
ExtractionFails(file) ==
  \/ ~file.zip
  \/ file.entries = <<>>
  \/ ~\E i \in DOMAIN file.entries :
        file.entries[i].name = <<file.entries[1].name[1], "resources.pak">>

\* C1: when the extraction worker fails (unreadable archive, no entries, or
\* no resources.pak under the first entry's root) it emits the error signal
\* and never the extracted signal; while that error is queued the run is
\* still extracting; and once the error is handled the temporary directory
\* is deleted, no run is open, and the flag is cleared: the options screen
\* was never shown.
C1_ExtractFailureDiscardsRun ==
  /\ last = "worker: extract" =>
       /\ Open
       /\ ExtractionFails(disk[configure_widget.filename]) <=>
            (queue # <<>> /\ queue[Len(queue)].worker = "extract"
                          /\ queue[Len(queue)].sig = "error")
       /\ ~ExtractionFails(disk[configure_widget.filename]) <=>
            (queue # <<>> /\ queue[Len(queue)].sig = "extracted")
  /\ Queued("extract", "error") =>
       Extracting /\ ~Queued("extract", "extracted")
  /\ last = "extract_worker_error" =>
       /\ ~Open
       /\ tmp_count \notin DOMAIN tmpfs
       /\ select_widget = "shown"
       /\ ~is_process_ongoing
       /\ workers = {}

C1_Witness == last = "extract_worker_error" /\ tmp_count = 1

\* C2: after an options worker's error is handled the run is in Ready with
\* the controls shown, the temporary directory and the extracted tree
\* exist, and the flag is cleared; and while a run is open after its
\* extraction, its temporary directory is deleted only by Go Back or by the
\* success of an attempt.
C2_WorkerErrorKeepsRun ==
  [][ /\ last' = "worker_error" =>
           /\ Ready'
           /\ TempDirPresent'
           /\ Exists(tmpfs'[configure_widget'.temporary_directory],
                     configure_widget'.extracted_contents)
           /\ ~is_process_ongoing'
           /\ workers' = {}
      /\ (Open /\ ~Extracting /\ TempDirPresent
            /\ configure_widget.temporary_directory \notin DOMAIN tmpfs') =>
           last' \in {"click_cancel", "worker_finished"} ]_vars

C2_Witness ==
  /\ last = "worker_error"
  /\ Ready
  /\ configure_widget.attempts < MaxAttempts

\* The order of the steps of an attempt with both options.
FullOrder == <<"fix_icon", "rezip", "create_installer", "move", "success">>

\* C3: in an attempt with both options the steps taken so far are a prefix
\* of: icon patch, rezip, installer build, move, success signal (so rezip
\* runs at most once and never after the installer build); a successful
\* attempt has taken them all.
C3_StepOrder ==
  (attempt.n > 0 /\ attempt.fix /\ attempt.inst) =>
    /\ IsPrefix(attempt.log, FullOrder)
    /\ attempt.outcome = "success" => attempt.log = FullOrder

C3_Witness ==
  attempt.fix /\ attempt.inst /\ attempt.outcome = "success"

\* C4 as claimed: in an attempt with only "create installer" the rezip step
\* never runs and the archive file stays as it was when the attempt began.
C4_ArchiveUnchanged ==
  (attempt.n > 0 /\ ~attempt.fix /\ attempt.inst) =>
    /\ ~InLog("rezip")
    /\ disk[attempt.file] = attempt.archive0

\* C4 amended: in an attempt with only "create installer" the rezip step
\* never runs, and the archive file stays as it was unless the destination
\* chosen for the installer is the archive's own path and the move has
\* succeeded: then the archive file is the installer.
C4_ArchiveUnchangedUnlessDestination ==
  (attempt.n > 0 /\ ~attempt.fix /\ attempt.inst) =>
    /\ ~InLog("rezip")
    /\ ~InLog("fix_icon")
    /\ \/ disk[attempt.file] = attempt.archive0
       \/ /\ attempt.dest = attempt.file
          /\ InLog("move")
          /\ disk[attempt.file] = OtherFile("setup")
    /\ (attempt.dest # attempt.file \/ ~InLog("move")) =>
         disk[attempt.file] = attempt.archive0

C4_Witness ==
  /\ ~attempt.fix /\ attempt.inst
  /\ attempt.outcome = "success"
  /\ attempt.dest # attempt.file
  /\ disk[attempt.dest] = OtherFile("setup")

\* The files the installer generator leaves in a tree.
InstallerFiles(tree) ==
  {p \in DOMAIN tree :
     \E i \in DOMAIN p : p[i] \in {"config.iss", "Generated Installer"}}

TreesInstallerFiles(fs) == UNION {InstallerFiles(fs[d]) : d \in DOMAIN fs}

\* C5: in an attempt with only "fix icon" the installer step never runs, no
\* destination is asked for and none is revealed, and no step of the
\* attempt adds an installer script or a 'Generated Installer' file to the
\* tree; when the worker reports success the archive file is the re-zipped
\* temporary directory, in which the executable carries the converted icon.
C5_FixIconOnly ==
  /\ [] ((attempt.n > 0 /\ attempt.fix /\ ~attempt.inst) =>
           /\ ~InLog("create_installer")
           /\ ~InLog("move")
           /\ ~attempt.asked
           /\ attempt.dest = ""
           /\ (last = "worker: success") =>
                /\ disk[attempt.file] = make_archive(tmpfs[attempt.run])
                /\ \E i \in DOMAIN disk[attempt.file].entries :
                     LET e == disk[attempt.file].entries[i]
                     IN  /\ EndsWith(e.name[Len(e.name)], ".exe")
                         /\ e.data \in {"exe[ico(icon.png)]", "exe[ico(custom.png)]"})
  /\ [][ (attempt.n > 0 /\ attempt.fix /\ ~attempt.inst
            /\ attempt.outcome = "running") =>
           TreesInstallerFiles(tmpfs') \subseteq TreesInstallerFiles(tmpfs) ]_vars

C5_Witness ==
  /\ attempt.fix /\ ~attempt.inst
  /\ attempt.outcome = "success"
  /\ disk[attempt.file].zip
  /\ disk[attempt.file] # attempt.archive0

\* The error of the latest attempt, just handled, is get_project_title's:
\* index.html has no <title>.
TitleFailure ==
  /\ last = "worker_error"
  /\ msgbox = "Error: 'NoneType' object has no attribute 'group'"

\* C6 as claimed: when the installer step has failed for want of a <title>,
\* the archive file is as it was when the attempt began, the temporary
\* directory and the extracted tree exist, and the controls are shown.
C6_TitleFailureArchiveUntouched ==
  TitleFailure =>
    /\ disk[attempt.file] = attempt.archive0
    /\ TempDirPresent
    /\ Ready

\* C6 amended: when the installer step has failed for want of a <title>,
\* the temporary directory and the extracted tree exist and the controls
\* are shown; the archive file is as it was when the attempt began if "fix
\* icon" was not selected in the attempt, and otherwise it has been
\* replaced, before the installer step, by the re-zipped temporary
\* directory.
C6_TitleFailureKeepsRun ==
  TitleFailure =>
    /\ TempDirPresent
    /\ Exists(tmpfs[configure_widget.temporary_directory],
              configure_widget.extracted_contents)
    /\ Ready
    /\ ~is_process_ongoing
    /\ attempt.inst /\ InLog("create_installer") /\ ~InLog("move")
    /\ ~attempt.fix => disk[attempt.file] = attempt.archive0
    /\ attempt.fix =>
         /\ InLog("rezip")
         /\ disk[attempt.file] = make_archive(tmpfs[attempt.run])

C6_Witness == TitleFailure /\ ~attempt.fix /\ configure_widget.attempts < MaxAttempts

\* C7: a press of Continue with neither box ticked shows the error and
\* changes nothing else: no worker, archive, temporary directory, queue or
\* widget field changes, the flag is false again, and the run is in Ready.
C7_NoOptionChangesNothing ==
  [][ last' = "click: no option" =>
        /\ Ready
        /\ ~configure_widget.fix_icon_checkbox
        /\ ~configure_widget.create_installer_checkbox
        /\ UNCHANGED <<disk, tmpfs, tmp_count, configure_widget, select_widget,
                       is_process_ongoing, workers, queue, revealed, attempt>>
        /\ msgbox' = "Error: You have to check at least one of the boxes"
        /\ ~is_process_ongoing'
        /\ Ready' ]_vars

C7_Witness ==
  /\ last = "click: no option"
  /\ Ready
  /\ msgbox = "Error: You have to check at least one of the boxes"

\* C8: every options worker with create-installer set holds a non-empty
\* destination, chosen when the attempt began; and a press of Continue
\* whose save dialog is cancelled starts no worker, touches neither the
\* archive nor the temporary directory, and leaves the run in Ready with
\* the controls shown and the flag false.
C8_DestinationBeforeRunning ==
  /\ [] /\ \A w \in workers :
             (w.kind = "options" /\ w.should_create_installer) =>
               w.installer_destination # ""
        /\ (attempt.n > 0 /\ attempt.inst) =>
             attempt.asked /\ attempt.dest # ""
  /\ [][ last' = "click: no destination" =>
           /\ configure_widget.create_installer_checkbox
           /\ UNCHANGED <<disk, tmpfs, tmp_count, workers, queue, attempt>>
           /\ Ready'
           /\ ~is_process_ongoing'
           /\ configure_widget'.progress_widget = None
           /\ configure_widget'.attempts = configure_widget.attempts ]_vars

C8_Witness ==
  /\ last = "click: no destination"
  /\ Ready
  /\ workers = {}

\* C9: at most one worker is alive; an extraction worker runs only while
\* its run is extracting; an options worker runs only for the open run,
\* after that run's extraction was handled, with the controls hidden.
C9_OneWorkerAtATime ==
  /\ Cardinality(workers) <= 1
  /\ \A w \in workers :
       /\ Open
       /\ w.temporary_directory = configure_widget.temporary_directory
       /\ w.kind = "extract" => Extracting
       /\ w.kind = "options" =>
            /\ Running
            /\ configure_widget.extracted_contents # <<>>
            /\ ~Queued("extract", "extracted")
            /\ ~Queued("extract", "error")

C9_Witness ==
  \E w \in workers : w.kind = "options" /\ w.id[2] = 2 /\ w.pc = 2

\* C10: while a run is open exactly its one temporary directory exists;
\* when no run is open no temporary directory exists; and when the success
\* of an attempt has been handled its run is no longer open.
C10_TempDirLifecycle ==
  /\ Open =>
       /\ DOMAIN tmpfs = {configure_widget.temporary_directory}
       /\ configure_widget.temporary_directory = tmp_count
  /\ ~Open => DOMAIN tmpfs = {}
  /\ last \in {"worker_finished", "click_cancel", "extract_worker_error"} =>
       ~Open /\ select_widget = "shown"
  /\ attempt.outcome = "success" =>
       ~(Open /\ configure_widget.temporary_directory = attempt.run)

C10_Witness ==
  /\ last = "worker_finished"
  /\ attempt.outcome = "success"
  /\ tmp_count > 0
  /\ DOMAIN tmpfs = {}

\* C11: at most one run exists (one temporary directory, one extraction
\* worker, every worker belonging to the open run); and while a project is
\* open no step allocates a temporary directory or starts an extraction
\* worker: a file dropped while the flag is set is ignored without a
\* message, a file dropped in Ready is refused with the error 'Already
\* have a file open', and either way the run, its directory, its workers,
\* the queue and the archive are unchanged.
C11_NoSecondRun ==
  /\ [] /\ Cardinality(DOMAIN tmpfs) <= 1
        /\ Cardinality({w \in workers : w.kind = "extract"}) <= 1
        /\ Open => select_widget = "hidden"
  /\ [][ Open =>
           /\ tmp_count' = tmp_count
           /\ DOMAIN tmpfs' \subseteq DOMAIN tmpfs
           /\ {w \in workers' : w.kind = "extract"} \subseteq workers
           /\ last' \in {"on_file_selected: already open", "dropEvent: ignored"} =>
                UNCHANGED <<disk, tmpfs, tmp_count, configure_widget,
                            select_widget, is_process_ongoing, workers, queue,
                            revealed, attempt>>
           /\ last' = "dropEvent: ignored" =>
                is_process_ongoing /\ msgbox' = msgbox
           /\ last' = "on_file_selected: already open" =>
                Ready /\ msgbox' = "Error: Already have a file open"
           /\ last' # "on_file_selected" ]_vars

C11_Witness ==
  /\ last = "on_file_selected: already open"
  /\ Ready
  /\ workers = {}
  /\ msgbox = "Error: Already have a file open"
  /\ DOMAIN tmpfs = {configure_widget.temporary_directory}

\* The progress message a step of the options worker emits.
ProgressText(step) ==
  CASE step = "fix_icon" -> <<"Fixing icon">>
    [] step = "rezip" -> <<"Recompressing (slow!)">>
    [] step = "create_installer" -> <<"Creating installer (very slow!!)">>
    [] OTHER -> <<>>

\* The progress messages emitted by the steps taken so far, in order.
Emitted(log) == ConcatAll([i \in DOMAIN log |-> ProgressText(log[i])])

IsTerminal(m) == m.sig \in {"success", "extracted", "error"}
IsProgress(m) == m.sig = "progress_update"

\* The terminal signals, and the texts of the progress messages, that are
\* queued for the UI thread.
Terminals == SelectSeq(queue, IsTerminal)
QueuedProgress ==
  LET q == SelectSeq(queue, IsProgress) IN [i \in DOMAIN q |-> q[i].text]

\* C12: the progress messages shown so far followed by those still queued
\* are exactly the messages the worker's steps emitted, in emission order;
\* a worker that is alive has emitted no terminal signal, a worker that has
\* ended has emitted exactly one (success or extracted when its last step
\* succeeded, error otherwise), and that signal is the last one queued;
\* nothing of a worker is queued once its terminal signal is handled.
C12_SignalOrder ==
  /\ Len(Terminals) <= 1
  /\ Terminals # <<>> => IsTerminal(queue[Len(queue)]) /\ workers = {}
  /\ (Extracting \/ Running) => (workers = {}) # (Terminals = <<>>)
  /\ (Ready \/ ~Open) => queue = <<>> /\ workers = {}
  /\ Extracting =>
       /\ QueuedProgress = <<>>
       /\ \A i \in DOMAIN queue :
            /\ queue[i].worker = "extract"
            /\ queue[i].sig = "error" <=>
                 ExtractionFails(disk[configure_widget.filename])
  /\ Running =>
       /\ attempt.run = configure_widget.temporary_directory
       /\ attempt.n = configure_widget.attempts
       /\ attempt.outcome = "running"
       /\ \A i \in DOMAIN queue : queue[i].worker = "options"
       /\ configure_widget.progress_widget.text \o QueuedProgress
            = Emitted(attempt.log)
       /\ Terminals # <<>> =>
            (Terminals[1].sig = "success" <=> InLog("success"))
       /\ InLog("success") =>
            /\ attempt.log[Len(attempt.log)] = "success"
            /\ Terminals # <<>>

C12_Witness ==
  /\ Running
  /\ configure_widget.attempts = MaxAttempts
  /\ configure_widget.progress_widget.text = <<"Fixing icon">>
  /\ Len(queue) = 3
  /\ queue[3].sig = "error"

\* The archive can be read and has entries.
Readable(file) == file.zip /\ file.entries # <<>>

\* The top-level component of the first entry is not a common root of all
\* the entries.
NoCommonRoot(file) ==
  /\ Readable(file)
  /\ \E i \in DOMAIN file.entries :
       file.entries[i].name[1] # file.entries[1].name[1]

\* resources.pak lies under the top-level component of the first entry.
MarkerUnderRoot(file) ==
  \E i \in DOMAIN file.entries :
    /\ ~IsDirEntry(file.entries[i])
    /\ IsPrefix(<<file.entries[1].name[1], "resources.pak">>,
                file.entries[i].name)

\* The signal the extraction worker has just emitted.
ExtractSignal == queue[Len(queue)]

\* C13 as claimed: the extraction of an archive whose first entry's
\* top-level component is not a common root of its entries ends with the
\* error 'Invalid zip selected'.
C13_NoCommonRootFails ==
  (last = "worker: extract" /\ NoCommonRoot(disk[configure_widget.filename])) =>
    /\ ExtractSignal.sig = "error"
    /\ ExtractSignal.text = "Invalid zip selected"

\* C13 amended: the extraction of a readable archive ends with the error
\* 'Invalid zip selected' exactly when resources.pak is missing under the
\* top-level component of the first entry, whether or not the other
\* entries lie under that component; a run reaches Ready only with that
\* file present; and the extraction step writes to the run's temporary
\* directory alone.
C13_ExtractChecksMarkerOnly ==
  /\ [] /\ last = "worker: extract" =>
             LET file == disk[configure_widget.filename]
             IN  /\ Readable(file) =>
                      /\ ExtractSignal.sig \in {"error", "extracted"}
                      /\ ExtractSignal.sig = "error" <=> ~MarkerUnderRoot(file)
                      /\ ExtractSignal.sig = "error" =>
                           ExtractSignal.text = "Invalid zip selected"
                 /\ ~Readable(file) =>
                      /\ ExtractSignal.sig = "error"
                      /\ ExtractSignal.text # "Invalid zip selected"
        /\ last = "finished_extract" =>
             /\ Ready
             /\ MarkerUnderRoot(disk[configure_widget.filename])
             /\ verify_folder(tmpfs[configure_widget.temporary_directory],
                              configure_widget.extracted_contents)
  /\ [][ last' = "worker: extract" =>
           /\ disk' = disk
           /\ DOMAIN tmpfs' = DOMAIN tmpfs
           /\ \A d \in DOMAIN tmpfs :
                d # configure_widget.temporary_directory =>
                  tmpfs'[d] = tmpfs[d] ]_vars

C13_Witness ==
  /\ last = "finished_extract"
  /\ Ready
  /\ NoCommonRoot(disk[configure_widget.filename])
  /\ <<"stray.txt">> \in DOMAIN tmpfs[configure_widget.temporary_directory]

\* The rezip step of the latest attempt has just replaced the archive.
Rezipped ==
  /\ last = "worker: rezip"
  /\ queue[Len(queue)].sig # "error"

\* The file is an executable that fix_icon may patch.
IsExecutable(path) == EndsWith(path[Len(path)], ".exe")

\* C14 as claimed, for the first attempt of a run (whose archive is the
\* one the run opened): the archive written by rezip extracts to exactly
\* the file paths of the original archive, with the same contents except
\* for an executable.
C14_RezipRoundTrip ==
  (Rezipped /\ attempt.n = 1) =>
    LET before == ExtractAll(attempt.archive0.entries)
        after  == ExtractAll(disk[attempt.file].entries)
    IN  /\ DOMAIN after = DOMAIN before
        /\ \A p \in DOMAIN before :
             after[p] = before[p] \/ IsExecutable(p)

\* C15: while an attempt runs the widget's path to reveal is the
\* destination chosen in that attempt, and is set exactly when "create
\* installer" was selected in it; the handling of the attempt's success
\* reveals that destination (written with backslashes) when the installer
\* was selected and reveals nothing otherwise; and nothing is revealed by
\* any other step.
C15_RevealOnSuccess ==
  /\ [] (Running =>
           /\ configure_widget.file_to_reveal = attempt.dest
           /\ attempt.dest # "" <=> attempt.inst)
  /\ [][ /\ last' = "worker_finished" =>
             /\ attempt.inst =>
                  /\ attempt.dest # ""
                  /\ revealed' = Backslashes(attempt.dest)
             /\ ~attempt.inst => revealed' = revealed
         /\ last' # "worker_finished" => revealed' = revealed ]_vars

\* An attempt with only "fix icon" has succeeded after an earlier attempt of
\* the run had run the installer step for a chosen destination (its script
\* is in the re-zipped archive), and nothing was revealed.
C15_Witness ==
  /\ last = "worker_finished"
  /\ attempt.n = 2
  /\ ~attempt.inst
  /\ revealed = ""
  /\ \E i \in DOMAIN disk[attempt.file].entries :
       disk[attempt.file].entries[i].name = <<"root", "config.iss">>

\* The call of a function on its own has returned or raised.
Called(fn) == call.fn = fn /\ returned.done

\* C16 as claimed: get_icon_as_ico converts the icon the manifest names in
\* its window block, and icon.png when the manifest has no window block or
\* its window block names no icon (whenever that file is there, whatever
\* other icon is).
C16_IconNameResolution ==
  Called("get_icon_as_ico") =>
    LET manifest == JsonLoad(call.arg[<<"root", "package.json">>])
        source == IF manifest.has_window /\ manifest.has_icon
                    THEN manifest.icon ELSE "icon.png"
    IN  <<"root", source>> \in DOMAIN call.arg =>
          /\ returned.ok
          /\ returned.value = source \o ".ico"

\* The name ends with '.exe' and is not the helper's.
Qualifies(name) ==
  EndsWith(name, ".exe") /\ name # "notification_helper.exe"

\* C17: for every listing get_executable_name returns the qualifying name
\* of least position, and raises 'Cannot find executable' when no name
\* qualifies, as when notification_helper.exe is the only '.exe'.
C17_ExecutableLocator ==
  Called("get_executable_name") =>
    LET listing == call.arg
        found == {i \in DOMAIN listing : Qualifies(listing[i])}
    IN  /\ found = {} =>
             ~returned.ok /\ returned.err = "Cannot find executable"
        /\ found # {} =>
             /\ returned.ok
             /\ \E i \in found :
                  /\ returned.value = listing[i]
                  /\ \A j \in found : i <= j

C17_Witness ==
  /\ Called("get_executable_name")
  /\ call.arg = <<"notification_helper.exe", "demo Setup.exe", "app.exe">>
  /\ returned.value = "demo Setup.exe"

\* What one character of the input becomes in the output.
EscapedChar(c) ==
  IF c = "{" THEN <<"{", "{">> ELSE IF c = "\"" THEN <<>> ELSE <<c>>

\* How often a character occurs in a string.
Occurrences(c, string) == Cardinality({i \in DOMAIN string : string[i] = c})

\* C18: for every string, the empty one included, escape_inno_value
\* returns the string with each '{' doubled and each '"' left out: the
\* result has no '"' and twice the '{' of the input.
C18_EscapeInnoValue ==
  Called("escape_inno_value") =>
    LET s == call.arg
        out == returned.value
    IN  /\ returned.ok
        /\ out = ConcatAll([i \in DOMAIN s |-> EscapedChar(s[i])])
        /\ Occurrences("\"", out) = 0
        /\ Occurrences("{", out) = 2 * Occurrences("{", s)
        /\ s = <<>> => out = <<>>

C18_Witness ==
  /\ Called("escape_inno_value")
  /\ call.arg = <<"{", "\"", "a">>
  /\ returned.value = <<"{", "{", "a">>

\* The steps of the worker threads, and the handlers that call remove.
WorkerSteps ==
  {"worker: extract", "worker: fix_icon", "worker: rezip",
   "worker: create_installer", "worker: move", "worker: success"}
Removers == {"click_cancel", "worker_finished", "extract_worker_error"}

\* C19: while a worker is alive its run's temporary directory exists and
\* the Go Back button is not shown; a temporary directory is deleted only
\* by a handler that calls remove, and only when no worker is alive; and
\* while a worker is alive nothing but a worker's step changes a
\* temporary directory, the handlers of the UI thread leaving the
\* contents of every directory as they are.
C19_TempDirNotTouchedWhileWorking ==
  /\ [] (workers # {} =>
           /\ ~Ready
           /\ \A w \in workers :
                /\ w.temporary_directory \in DOMAIN tmpfs
                /\ w.temporary_directory = configure_widget.temporary_directory)
  /\ [][ /\ (\E d \in DOMAIN tmpfs : d \notin DOMAIN tmpfs') =>
             /\ workers = {}
             /\ workers' = {}
             /\ last' \in Removers
         /\ (workers # {} /\ tmpfs' # tmpfs) => last' \in WorkerSteps
         /\ last' \notin WorkerSteps =>
             \A d \in DOMAIN tmpfs \cap DOMAIN tmpfs' : tmpfs'[d] = tmpfs[d] ]_vars

\* Go Back was pressed after an attempt had failed: the directory, with
\* what the attempt's worker had written, is gone.
C19_Witness ==
  /\ last = "click_cancel"
  /\ attempt.outcome = "error"
  /\ InLog("fix_icon")
  /\ workers = {}
  /\ attempt.run \notin DOMAIN tmpfs

\* A background operation of the open run is in progress.
InProgress == Extracting \/ Running

\* C20 as claimed: the flag is set exactly while the open run is
\* Extracting or Running, so that a close is put to the user, and a drop is
\* ignored, only then.
C20_FlagMatchesRun ==
  /\ is_process_ongoing <=> InProgress
  /\ last \in {"closeEvent: ignored", "dropEvent: ignored"} => InProgress

====
